---------------------------- MODULE Spec2Model ----------------------------
(***************************************************************************)
(* Release-note cache of central-api (pkg/ReleaseNoteService.go).          *)
(*                                                                         *)
(* ReleaseNoteServiceImpl keeps the list of releases in a key/value store  *)
(* (releaseCache) and has two entry points that may run concurrently on    *)
(* different goroutines:                                                   *)
(*   GetReleases    - returns the cached list, or on an empty cache fetches*)
(*                    it from the remote API (at most 3 attempts) and      *)
(*                    writes it to the store under impl.mutex;             *)
(*   UpdateReleases - decodes a webhook payload, builds a Release, puts it *)
(*                    in front of the list it read from the store and      *)
(*                    writes the result back under impl.mutex.             *)
(* Every access to shared state (the store, the mutex, the remote API) is  *)
(* one step of the model; the code between two such accesses only touches  *)
(* the goroutine's locals and is folded into the step that follows it.     *)
(***************************************************************************)
EXTENDS Integers, Sequences, FiniteSets, TLC

(* ------------------------------ bounds -------------------------------- *)

\* Number of top-level calls (GetReleases or UpdateReleases) made after
\* construction; they may all overlap.  Calls are numbered in the order in
\* which they are invoked.
NumCalls == 2

Calls == 1..NumCalls

(* ----------------------------- constants ------------------------------ *)

\* const ActionPublished = "published"
ActionPublished == "published"

\* retryCount < 3
MaxAttempts == 3

\* The zero value of time.Time.
ZeroTime == 0

\* Owner of the mutex when it is unlocked.
NoCall == 0

(* --------------------------- domain values ---------------------------- *)

\* A release body is a sequence of pieces of text; Marker is the piece that
\* delimits a prerequisite block.
Marker == "<prerequisite>"

BodyPlain == <<"notes">>
BodyBlock == <<Marker, "migrate", Marker>>
BodyOpen == <<"notes", Marker>>

\* common.Release with every field at its zero value.
ZeroRelease ==
    [TagName |-> "", ReleaseName |-> "", Body |-> << >>,
     CreatedAt |-> ZeroTime, PublishedAt |-> ZeroTime,
     TagLink |-> "", Prerequisite |-> FALSE, PrerequisiteMessage |-> << >>]

\* time.Parse("2006-01-02T15:04:05.000Z", s): the layout demands exactly three
\* fractional digits, so a timestamp without them fails to parse and the
\* returned time is the zero time.
TimeParse(s) ==
    CASE s = "2022-03-01T10:00:00.000Z" -> [time |-> 1646128800, ok |-> TRUE]
      [] s = "2022-04-01T10:00:00.000Z" -> [time |-> 1648807200, ok |-> TRUE]
      [] OTHER                         -> [time |-> ZeroTime, ok |-> FALSE]

\* Webhook request bodies.  wellFormed = FALSE stands for bytes that
\* json.Unmarshal rejects; the other fields are those of the decoded map.
Request(wf, action, name, tag, created, body) ==
    [wellFormed |-> wf, action |-> action, name |-> name, tag_name |-> tag,
     created_at |-> created, body |-> body]

Requests ==
    { Request(FALSE, "", "", "", "", << >>),
      Request(TRUE, "published", "v1", "t1", "2022-03-01T10:00:00.000Z", BodyPlain),
      Request(TRUE, "published", "v1", "t1", "2022-03-01T10:00:00Z", BodyBlock),
      Request(TRUE, "published", "v2", "t2", "2022-04-01T10:00:00.000Z", BodyPlain),
      Request(TRUE, "edited", "v1", "t1", "2022-03-01T10:00:00.000Z", BodyBlock),
      Request(TRUE, "deleted", "v2", "t2", "2022-04-01T10:00:00.000Z", BodyPlain) }

\* Records returned by the remote list-releases operation (github.RepositoryRelease).
RemoteRelease(tag, name, created, published, body) ==
    [TagName |-> tag, Name |-> name, CreatedAt |-> created,
     PublishedAt |-> published, Body |-> body]

RemoteR3 == RemoteRelease("t3", "v3", 1640000000, 1640000100, BodyOpen)
RemoteR1 == RemoteRelease("t1", "v1", 1646128800, 1646128900, BodyPlain)

RemoteLists == { << >>, <<RemoteR3>>, <<RemoteR3, RemoteR1>> }

\* Outcomes of one ListReleases call: an error (a 404 ErrorResponse or any
\* other error) or a list of records.
Responses ==
    { [err |-> "404", releases |-> << >>],
      [err |-> "other", releases |-> << >>] }
    \cup { [err |-> "nil", releases |-> l] : l \in RemoteLists }

NoResponse == [err |-> "none", releases |-> << >>]

(* ------------------------------- store -------------------------------- *)

\* The value under the "releases" key of the store: no entry, a release
\* list, or a value that fails the type check of the caller.
Absent == [kind |-> "absent", items |-> << >>]
Malformed == [kind |-> "malformed", items |-> << >>]
Stored(list) == [kind |-> "releases", items |-> list]

VARIABLES
    releaseCache,       \* the store entry
    mutex,              \* impl.mutex: NoCall or the call holding it
    pc,                 \* where each call is
    op,                 \* "none", "get" or "update"
    request,            \* UpdateReleases: requestBodyBytes
    releaseInfo,        \* UpdateReleases: the Release built from the payload
    releaseList,        \* both: the local releaseList
    retryCount,         \* GetReleases: retryCount
    operationComplete,  \* GetReleases: operationComplete
    ret,                \* what the call returned
    snap,               \* history: the store entry the call read
    listCalls,          \* history: ListReleases calls made by the call
    fetched,            \* history: the response of the successful attempt
    writes,             \* history: store writes made by the call
    locks,              \* history: acquisitions of the mutex by the call
    webhookOnly         \* history: the store was empty at start and only
                        \* UpdateReleases has written it

vars == <<releaseCache, mutex, pc, op, request, releaseInfo, releaseList,
          retryCount, operationComplete, ret, snap, listCalls, fetched,
          writes, webhookOnly, locks>>

NoRet == [flag |-> FALSE, list |-> << >>, err |-> "none"]
Ret(flag, list, err) == [flag |-> flag, list |-> list, err |-> err]

Range(s) == { s[i] : i \in 1..Len(s) }
Names(list) == { list[i].ReleaseName : i \in 1..Len(list) }

(* ---------------------------- store access ---------------------------- *)

\* impl.releaseCache.GetReleaseCache()
GetReleaseCache == releaseCache

\* impl.releaseCache.UpdateReleaseCache(list)
UpdateReleaseCache(list) == releaseCache' = Stored(list)

\* Lines 78-93 / 103-117: the type check of the value read and the copy of
\* its releases.  ok = FALSE is the failed assertion.
ReadCached(cached) ==
    IF cached.kind = "malformed" THEN [ok |-> FALSE, releases |-> << >>]
    ELSE [ok |-> TRUE, releases |-> cached.items]

(* --------------------------- local computation ------------------------ *)

\* Variant of Accepted that ingests every action.
AcceptedAny(action) == TRUE

\* Line 54: the only action that is ingested.
Accepted(action) == action = ActionPublished

\* Lines 57-72: the Release built from the decoded payload.  A created_at
\* that does not parse is logged and leaves CreatedAt at the zero time.
BuildReleaseInfo(req) ==
    [ZeroRelease EXCEPT !.TagName = req.tag_name,
                        !.ReleaseName = req.name,
                        !.Body = req.body,
                        !.CreatedAt = TimeParse(req.created_at).time]

\* Variant of MergeRelease that puts the new release last.
MergeReleaseAppend(info, cached) == cached \o <<info>>

\* Lines 75-76 and 90: the new release followed by the releases read.
MergeRelease(info, cached) == <<info>> \o cached

\* Variant of MapRelease that leaves PublishedAt unset.
MapReleaseNoPublished(item) ==
    [ZeroRelease EXCEPT !.TagName = item.TagName,
                        !.ReleaseName = item.Name,
                        !.CreatedAt = item.CreatedAt,
                        !.Body = item.Body]

\* Lines 142-148: one remote record as a Release.
MapRelease(item) ==
    [ZeroRelease EXCEPT !.TagName = item.TagName,
                        !.ReleaseName = item.Name,
                        !.CreatedAt = item.CreatedAt,
                        !.PublishedAt = item.PublishedAt,
                        !.Body = item.Body]

\* Lines 140-151: the records of a response, in the order received.
MapReleases(releases) == [i \in 1..Len(releases) |-> MapRelease(releases[i])]

\* Variant of LoopContinues with an off-by-one attempt limit.
LoopContinuesInclusive(complete, count) == ~complete /\ count <= MaxAttempts

\* Line 122: the condition of the retry loop.
LoopContinues(complete, count) == ~complete /\ count < MaxAttempts

\* Variant of IsNil that also takes a one-element list for nil.
IsNilShort(list) == Len(list) <= 1

\* Line 119: releaseList == nil.  append of no elements to a nil slice
\* leaves it nil, so an empty stored list is nil here as well.
IsNil(list) == list = << >>

(* ------------------------------- mutex -------------------------------- *)

\* Variant of Lock that does not wait for the mutex to be unlocked.
LockNoWait(p) == mutex' = p

\* impl.mutex.Lock(): sync.Mutex is not reentrant, the caller waits until
\* the mutex is unlocked.
Lock(p) == mutex = NoCall /\ mutex' = p

\* Variant of Unlock that leaves the mutex locked.
UnlockSkipped(p) == mutex' = mutex

\* The deferred impl.mutex.Unlock(), run when the function returns.
Unlock(p) == mutex' = NoCall

(* ------------------------------- state -------------------------------- *)

\* NewReleaseNoteServiceImpl runs GetReleases once on the fresh store and
\* ignores its error: the store is still without an entry when all attempts
\* failed, and holds the mapped list of the successful attempt otherwise.
Init ==
    /\ releaseCache \in {Absent} \cup { Stored(MapReleases(l)) : l \in RemoteLists }
    /\ mutex = NoCall
    /\ pc = [p \in Calls |-> "idle"]
    /\ op = [p \in Calls |-> "none"]
    /\ request = [p \in Calls |-> Request(FALSE, "", "", "", "", << >>)]
    /\ releaseInfo = [p \in Calls |-> ZeroRelease]
    /\ releaseList = [p \in Calls |-> << >>]
    /\ retryCount = [p \in Calls |-> 0]
    /\ operationComplete = [p \in Calls |-> FALSE]
    /\ ret = [p \in Calls |-> NoRet]
    /\ snap = [p \in Calls |-> Absent]
    /\ listCalls = [p \in Calls |-> 0]
    /\ fetched = [p \in Calls |-> NoResponse]
    /\ writes = [p \in Calls |-> 0]
    /\ locks = [p \in Calls |-> 0]
    /\ webhookOnly = IsNil(releaseCache.items)

\* Call p can be invoked: it has not been, and the calls before it have.
CanInvoke(p) == pc[p] = "idle" /\ \A q \in Calls : q < p => pc[q] # "idle"

Return(p, r) == pc' = [pc EXCEPT ![p] = "done"] /\ ret' = [ret EXCEPT ![p] = r]

(* --------------------------- UpdateReleases --------------------------- *)

\* Lines 46-93: decode, action check, build the Release, read the store.
UpdateCall(p, req) ==
    /\ CanInvoke(p)
    /\ op' = [op EXCEPT ![p] = "update"]
    /\ request' = [request EXCEPT ![p] = req]
    /\ IF ~req.wellFormed
       THEN /\ Return(p, Ret(FALSE, << >>, "unmarshal"))
            /\ UNCHANGED <<releaseInfo, releaseList, snap>>
       ELSE IF ~Accepted(req.action)
       THEN /\ Return(p, Ret(FALSE, << >>, "nil"))
            /\ UNCHANGED <<releaseInfo, releaseList, snap>>
       ELSE LET info == BuildReleaseInfo(req)
                cachedReleases == GetReleaseCache
                rd == ReadCached(cachedReleases)
            IN /\ releaseInfo' = [releaseInfo EXCEPT ![p] = info]
               /\ snap' = [snap EXCEPT ![p] = cachedReleases]
               /\ IF ~rd.ok
                  THEN /\ Return(p, Ret(FALSE, << >>, "nil"))
                       /\ releaseList' = [releaseList EXCEPT ![p] = <<info>>]
                  ELSE /\ releaseList' = [releaseList EXCEPT ![p] = MergeRelease(info, rd.releases)]
                       /\ pc' = [pc EXCEPT ![p] = "u_lock"]
                       /\ UNCHANGED ret
    /\ UNCHANGED <<releaseCache, mutex, retryCount, operationComplete,
                   listCalls, fetched, writes, webhookOnly, locks>>

\* Line 94.
UpdateLock(p) ==
    /\ pc[p] = "u_lock"
    /\ Lock(p)
    /\ locks' = [locks EXCEPT ![p] = @ + 1]
    /\ pc' = [pc EXCEPT ![p] = "u_set"]
    /\ UNCHANGED <<releaseCache, op, request, releaseInfo, releaseList, retryCount,
                   operationComplete, ret, snap, listCalls, fetched, writes, webhookOnly>>

\* Variant of UpdateSet that goes on to return without writing the store.
UpdateSetSkip(p) ==
    /\ pc[p] = "u_set"
    /\ pc' = [pc EXCEPT ![p] = "u_ret"]
    /\ UNCHANGED <<releaseCache, mutex, op, request, releaseInfo, releaseList, retryCount,
                   operationComplete, ret, snap, listCalls, fetched, writes, webhookOnly, locks>>

\* Line 96.
UpdateSet(p) ==
    /\ pc[p] = "u_set"
    /\ UpdateReleaseCache(releaseList[p])
    /\ writes' = [writes EXCEPT ![p] = @ + 1]
    /\ pc' = [pc EXCEPT ![p] = "u_ret"]
    /\ UNCHANGED <<mutex, op, request, releaseInfo, releaseList, retryCount,
                   operationComplete, ret, snap, listCalls, fetched, webhookOnly, locks>>

\* Line 97 and the deferred unlock of line 95.
UpdateReturn(p) ==
    /\ pc[p] = "u_ret"
    /\ Unlock(p)
    /\ Return(p, Ret(TRUE, << >>, "nil"))
    /\ UNCHANGED <<releaseCache, op, request, releaseInfo, releaseList, retryCount,
                   operationComplete, snap, listCalls, fetched, writes, webhookOnly, locks>>

(* ----------------------------- GetReleases ---------------------------- *)

\* Lines 100-121 (and 162 on a hit): read the store; return what it holds
\* unless that is nothing.
GetCall(p) ==
    /\ CanInvoke(p)
    /\ op' = [op EXCEPT ![p] = "get"]
    /\ LET cachedReleases == GetReleaseCache
           rd == ReadCached(cachedReleases)
       IN /\ snap' = [snap EXCEPT ![p] = cachedReleases]
          /\ IF ~rd.ok
             THEN /\ Return(p, Ret(FALSE, << >>, "nil"))
                  /\ UNCHANGED <<releaseList, retryCount, operationComplete>>
             ELSE IF ~IsNil(rd.releases)
             THEN /\ Return(p, Ret(FALSE, rd.releases, "nil"))
                  /\ releaseList' = [releaseList EXCEPT ![p] = rd.releases]
                  /\ UNCHANGED <<retryCount, operationComplete>>
             ELSE /\ pc' = [pc EXCEPT ![p] = "g_loop"]
                  /\ releaseList' = [releaseList EXCEPT ![p] = << >>]
                  /\ retryCount' = [retryCount EXCEPT ![p] = 0]
                  /\ operationComplete' = [operationComplete EXCEPT ![p] = FALSE]
                  /\ UNCHANGED ret
    /\ UNCHANGED <<releaseCache, mutex, request, releaseInfo, listCalls, fetched,
                   writes, webhookOnly, locks>>

\* Variant of GetListReleases that takes the mutex before the remote call.
GetListReleasesLocked(p) ==
    /\ pc[p] = "g_loop"
    /\ LoopContinues(operationComplete[p], retryCount[p])
    /\ Lock(p)
    /\ retryCount' = [retryCount EXCEPT ![p] = @ + 1]
    /\ listCalls' = [listCalls EXCEPT ![p] = @ + 1]
    /\ pc' = [pc EXCEPT ![p] = "g_wait"]
    /\ UNCHANGED <<releaseCache, op, request, releaseInfo, releaseList,
                   operationComplete, ret, snap, fetched, writes, webhookOnly, locks>>

\* Lines 122-124: the loop condition holds, the attempt is counted and the
\* remote call is issued.
GetListReleases(p) ==
    /\ pc[p] = "g_loop"
    /\ LoopContinues(operationComplete[p], retryCount[p])
    /\ retryCount' = [retryCount EXCEPT ![p] = @ + 1]
    /\ listCalls' = [listCalls EXCEPT ![p] = @ + 1]
    /\ pc' = [pc EXCEPT ![p] = "g_wait"]
    /\ UNCHANGED <<releaseCache, mutex, op, request, releaseInfo, releaseList,
                   operationComplete, ret, snap, fetched, writes, webhookOnly, locks>>

\* Variant of GetResult that never reports an error.
GetResultNoError(complete, list) == Ret(FALSE, list, "nil")

\* Lines 157-162, reached when the loop condition fails.
GetResult(complete, list) ==
    IF ~complete THEN Ret(FALSE, list, "exhausted") ELSE Ret(FALSE, list, "nil")

\* Variant of FetchFailed that takes only a 404 for a failure.
FetchFailedOn404(err) == err = "404"

\* Lines 125-135: err != nil; both branches of line 127 continue the loop.
FetchFailed(err) == err # "nil"

\* Lines 124-152: the remote call returns.  An error of either kind
\* continues the loop (and with no attempt left the function returns, lines
\* 157-159); otherwise operationComplete is set when err is nil (line 136)
\* and the records are mapped into releaseList.
GetResponse(p, resp) ==
    /\ pc[p] = "g_wait"
    /\ IF FetchFailed(resp.err)
       THEN /\ IF LoopContinues(operationComplete[p], retryCount[p])
               THEN pc' = [pc EXCEPT ![p] = "g_loop"] /\ UNCHANGED ret
               ELSE Return(p, GetResult(operationComplete[p], releaseList[p]))
            /\ UNCHANGED <<operationComplete, releaseList, fetched>>
       ELSE /\ operationComplete' = [operationComplete EXCEPT ![p] = @ \/ resp.err = "nil"]
            /\ releaseList' = [releaseList EXCEPT ![p] = MapReleases(resp.releases)]
            /\ fetched' = [fetched EXCEPT ![p] = IF resp.err = "nil" THEN resp ELSE @]
            /\ pc' = [pc EXCEPT ![p] = "g_lock"]
            /\ UNCHANGED ret
    /\ UNCHANGED <<releaseCache, mutex, op, request, releaseInfo, retryCount,
                   snap, listCalls, writes, webhookOnly, locks>>

\* Line 153.
GetLock(p) ==
    /\ pc[p] = "g_lock"
    /\ Lock(p)
    /\ locks' = [locks EXCEPT ![p] = @ + 1]
    /\ pc' = [pc EXCEPT ![p] = "g_set"]
    /\ UNCHANGED <<releaseCache, op, request, releaseInfo, releaseList, retryCount,
                   operationComplete, ret, snap, listCalls, fetched, writes, webhookOnly>>

\* Line 155, then the loop condition of line 122 again.
GetSet(p) ==
    /\ pc[p] = "g_set"
    /\ UpdateReleaseCache(releaseList[p])
    /\ writes' = [writes EXCEPT ![p] = @ + 1]
    /\ webhookOnly' = FALSE
    /\ pc' = [pc EXCEPT ![p] = IF LoopContinues(operationComplete[p], retryCount[p])
                                THEN "g_loop" ELSE "g_ret"]
    /\ UNCHANGED <<mutex, op, request, releaseInfo, releaseList, retryCount,
                   operationComplete, ret, snap, listCalls, fetched, locks>>

\* Lines 157-162 after the loop, and the deferred unlock of line 154.
GetReturn(p) ==
    /\ pc[p] = "g_ret"
    /\ Unlock(p)
    /\ Return(p, GetResult(operationComplete[p], releaseList[p]))
    /\ UNCHANGED <<releaseCache, op, request, releaseInfo, releaseList, retryCount,
                   operationComplete, snap, listCalls, fetched, writes, webhookOnly, locks>>

(* ---------------------------- specification --------------------------- *)

Next ==
    \E p \in Calls :
        \/ \E req \in Requests : UpdateCall(p, req)
        \/ UpdateLock(p)
        \/ UpdateSet(p)
        \/ UpdateReturn(p)
        \/ GetCall(p)
        \/ GetListReleases(p)
        \/ \E resp \in Responses : GetResponse(p, resp)
        \/ GetLock(p)
        \/ GetSet(p)
        \/ GetReturn(p)

Spec == Init /\ [][Next]_vars

(* ---------------------- the store's own behaviour --------------------- *)

\* The store drops the entry (its expiry policy).
StoreExpire ==
    /\ releaseCache.kind = "releases"
    /\ releaseCache' = Absent
    /\ UNCHANGED <<mutex, pc, op, request, releaseInfo, releaseList, retryCount,
                   operationComplete, ret, snap, listCalls, fetched, writes, locks,
                   webhookOnly>>

\* The store comes to hold a value that fails the caller's type check.
StoreCorrupt ==
    /\ releaseCache.kind # "malformed"
    /\ releaseCache' = Malformed
    /\ UNCHANGED <<mutex, pc, op, request, releaseInfo, releaseList, retryCount,
                   operationComplete, ret, snap, listCalls, fetched, writes, locks,
                   webhookOnly>>

NextStore == Next \/ StoreExpire \/ StoreCorrupt

\* The service on a store that may drop or garble its entry at any time.
SpecStore == Init /\ [][NextStore]_vars

\* Every invoked call keeps being scheduled: goroutines run, a remote call
\* returns, and a call waiting for the mutex gets it once it stays unlocked.
CallStep(p) ==
    \/ UpdateLock(p)
    \/ UpdateSet(p)
    \/ UpdateReturn(p)
    \/ GetListReleases(p)
    \/ \E resp \in Responses : GetResponse(p, resp)
    \/ GetLock(p)
    \/ GetSet(p)
    \/ GetReturn(p)

SpecFair == Spec /\ \A p \in Calls : WF_vars(CallStep(p))

(* ------------------------------- claims ------------------------------- *)

AllDone == \A p \in Calls : pc[p] = "done"

\* Call p is an UpdateReleases that has returned true.
Ingested(p) == op[p] = "update" /\ pc[p] = "done" /\ ret[p].flag

\* Call p is a GetReleases that found nothing usable in the store.
Cold(p) == op[p] = "get" /\ snap[p].kind # "malformed" /\ IsNil(snap[p].items)

\* Call p takes the step that writes its releaseList to the store.
UpdateWrites(p) == pc[p] = "u_set" /\ pc'[p] = "u_ret"

\* C1: when every call is an UpdateReleases, all have returned, and those
\* that returned true carry distinct release names, the cached collection
\* contains the release of each call that returned true.
C1_NoLostIngest ==
    ( /\ AllDone
      /\ \A p \in Calls : op[p] = "update"
      /\ \A p, q \in Calls :
            Ingested(p) /\ Ingested(q) /\ p # q
                => releaseInfo[p].ReleaseName # releaseInfo[q].ReleaseName )
    => \A p \in Calls : Ingested(p) => releaseInfo[p] \in Range(releaseCache.items)

\* C2: when a GetReleases that found the cache empty and fetched
\* successfully and an UpdateReleases that returned true have both returned,
\* and no other call has written the store, the ingested release is in the
\* cached collection.
C2_NoLostUpdateAcrossPaths ==
    \A p, q \in Calls :
        ( /\ Cold(p) /\ pc[p] = "done" /\ fetched[p].err = "nil"
          /\ Ingested(q)
          /\ \A r \in Calls \ {p, q} : writes[r] = 0 )
        => releaseInfo[q] \in Range(releaseCache.items)

\* C3: an UpdateReleases whose release name is already in the cached
\* collection (and the store still holds what the call read) writes back a
\* collection of the same length and order in which only the body of the
\* entry of that name has changed.
C3_UpsertOnlyBody ==
    [][ \A p \in Calls :
          ( /\ UpdateWrites(p)
            /\ releaseCache = snap[p]
            /\ releaseInfo[p].ReleaseName \in Names(releaseCache.items) )
          => /\ Len(releaseCache'.items) = Len(releaseCache.items)
             /\ \A i \in 1..Len(releaseCache.items) :
                  releaseCache'.items[i] =
                     IF releaseCache.items[i].ReleaseName = releaseInfo[p].ReleaseName
                     THEN [releaseCache.items[i] EXCEPT !.Body = releaseInfo[p].Body]
                     ELSE releaseCache.items[i] ]_vars

\* C4: while the store started empty and only UpdateReleases has written
\* it, the cached collection holds at most one Release per releaseName.
C4_OnePerReleaseName ==
    webhookOnly =>
        \A i, j \in 1..Len(releaseCache.items) :
            releaseCache.items[i].ReleaseName = releaseCache.items[j].ReleaseName => i = j

C6_OtherActionIgnored ==
    [][ \A p \in Calls :
          ( /\ pc[p] = "idle" /\ op'[p] = "update"
            /\ request'[p].wellFormed
            /\ request'[p].action \notin {"published", "edited"} )
          => /\ pc'[p] = "done"
             /\ ret'[p] = Ret(FALSE, << >>, "nil")
             /\ releaseCache' = releaseCache
             /\ writes'[p] = 0 ]_vars

C6_Witness ==
    \E p \in Calls :
        /\ op[p] = "update" /\ pc[p] = "done"
        /\ request[p].wellFormed /\ request[p].action = "deleted"
        /\ ret[p] = Ret(FALSE, << >>, "nil")
        /\ writes[p] = 0

\* C7: an UpdateReleases of a well-formed payload whose action is
\* "published" or "edited" returns (true, nil) and has written the store.
C7_EditedIngested ==
    \A p \in Calls :
        ( /\ op[p] = "update" /\ pc[p] = "done"
          /\ request[p].wellFormed
          /\ request[p].action \in {"published", "edited"} )
        => ret[p] = Ret(TRUE, << >>, "nil") /\ writes[p] = 1

\* The store holds a non-empty collection.
Populated == releaseCache.kind = "releases" /\ releaseCache.items # << >>

\* No GetReleases that found the store empty is still running.
NoFetchPending == \A p \in Calls : op[p] = "get" => pc[p] \in {"idle", "done"}

C9_AttemptsBounded ==
    \A p \in Calls :
        Cold(p) =>
            /\ listCalls[p] <= 3
            /\ pc[p] = "done" => listCalls[p] >= 1
            /\ fetched[p].err = "nil" => pc[p] \in {"g_lock", "g_set", "g_ret", "done"}
            /\ pc[p] \in {"g_loop", "g_wait"} => fetched[p] = NoResponse

C9_Witness ==
    \E p \in Calls :
        /\ Cold(p) /\ pc[p] = "done"
        /\ listCalls[p] = 3
        /\ ret[p].err = "exhausted"

\* C10: a GetReleases that found the cache empty and whose k-th attempt
\* (k <= 3) is the first without error returns the collection mapped from
\* that attempt with a nil error, and the store holds that collection when
\* it returns.
C10_SuccessAfterRetries ==
    [][ \A p \in Calls :
          ( Cold(p) /\ pc[p] # "done" /\ pc'[p] = "done" /\ fetched[p].err = "nil" )
          => /\ listCalls[p] \in 1..3
             /\ ret'[p] = Ret(FALSE, MapReleases(fetched[p].releases), "nil")
             /\ releaseCache' = Stored(MapReleases(fetched[p].releases)) ]_vars

C10_Witness ==
    \E p \in Calls :
        /\ Cold(p) /\ pc[p] = "done"
        /\ listCalls[p] = 3
        /\ fetched[p].releases = <<RemoteR3, RemoteR1>>
        /\ ret[p] = Ret(FALSE, MapReleases(fetched[p].releases), "nil")
        /\ releaseCache = Stored(ret[p].list)

\* C11: a GetReleases that found the cache empty returns the 'attempted 3
\* times' error exactly when it made 3 remote calls and every one returned an
\* error; when some attempt succeeded it returns a nil error.
C11_ExhaustedIffAllFailed ==
    \A p \in Calls :
        ( Cold(p) /\ pc[p] = "done" )
        => /\ ret[p].err \in {"nil", "exhausted"}
           /\ ret[p].err = "exhausted" <=> ( listCalls[p] = 3 /\ fetched[p] = NoResponse )
           /\ fetched[p].err = "nil" => ret[p].err = "nil"

C11_Witness ==
    \E p, q \in Calls :
        /\ Cold(p) /\ pc[p] = "done" /\ ret[p].err = "exhausted" /\ listCalls[p] = 3
        /\ Cold(q) /\ pc[q] = "done" /\ ret[q].err = "nil" /\ listCalls[q] = 2

\* C12: an UpdateReleases of a "published" event that reads a store value
\* failing the type check carries on as with an empty cache: it writes the
\* store and returns (true, nil).
C12_MalformedTreatedAsEmpty ==
    \A p \in Calls :
        ( /\ op[p] = "update" /\ pc[p] = "done"
          /\ request[p].wellFormed /\ request[p].action = "published"
          /\ snap[p].kind = "malformed" )
        => ret[p] = Ret(TRUE, << >>, "nil") /\ writes[p] = 1

\* C13: a GetReleases that finds no usable collection in the store (no
\* entry, an empty collection or a value failing the type check) has made
\* at least one remote call by the time it returns.
C13_NoUsableCollectionFetches ==
    \A p \in Calls :
        ( /\ op[p] = "get" /\ pc[p] = "done"
          /\ ~(snap[p].kind = "releases" /\ snap[p].items # << >>) )
        => listCalls[p] >= 1

\* The Prerequisite Extractor: whether the body holds the marker, and the
\* text strictly between its first and last occurrence with the marker
\* removed (empty when the marker occurs once or not at all).
ExtractPrerequisite(body) ==
    LET at == { i \in 1..Len(body) : body[i] = Marker }
    IN IF at = {} THEN [prerequisite |-> FALSE, message |-> << >>]
       ELSE LET first == CHOOSE i \in at : \A j \in at : i <= j
                last == CHOOSE i \in at : \A j \in at : j <= i
                NotMarker(t) == t # Marker
            IN IF first = last THEN [prerequisite |-> TRUE, message |-> << >>]
               ELSE [prerequisite |-> TRUE,
                     message |-> SelectSeq(SubSeq(body, first + 1, last - 1), NotMarker)]

\* The fixed base of a tag's page ("<base>/<tagName>").
TagLinkBase == "<base>"

\* The Releases built by the calls: by UpdateReleases from its payload, by
\* GetReleases from the records of its successful attempt.
BuiltReleases ==
    { releaseInfo[p] : p \in { q \in Calls : op[q] = "update" /\ releaseInfo[q] # ZeroRelease } }
    \cup UNION { Range(releaseList[p]) : p \in { q \in Calls : op[q] = "get" /\ fetched[q].err = "nil" } }

\* C14: every Release built by either path has prerequisite true exactly
\* when its body holds the marker, and prerequisiteMessage equal to the text
\* between the first and the last marker.
C14_PrerequisiteExtracted ==
    \A r \in BuiltReleases :
        /\ r.Prerequisite = ExtractPrerequisite(r.Body).prerequisite
        /\ r.PrerequisiteMessage = ExtractPrerequisite(r.Body).message

\* C15: a GetReleases that found the cache empty and whose first remote call
\* returned N >= 1 records without error returns N Releases in the order of
\* the records, each with the tagName, releaseName, body, createdAt and
\* publishedAt of its record, and the store holds that collection when it
\* returns.
C15_FirstAttemptMapped ==
    [][ \A p \in Calls :
          ( /\ Cold(p) /\ pc[p] # "done" /\ pc'[p] = "done"
            /\ listCalls[p] = 1 /\ fetched[p].err = "nil"
            /\ Len(fetched[p].releases) >= 1 )
          => LET recs == fetched[p].releases
                 out == ret'[p].list
             IN /\ ret'[p].err = "nil"
                /\ Len(out) = Len(recs)
                /\ \A i \in 1..Len(recs) :
                      /\ out[i].TagName = recs[i].TagName
                      /\ out[i].ReleaseName = recs[i].Name
                      /\ out[i].Body = recs[i].Body
                      /\ out[i].CreatedAt = recs[i].CreatedAt
                      /\ out[i].PublishedAt = recs[i].PublishedAt
                /\ releaseCache' = Stored(out) ]_vars

C15_Witness ==
    \E p \in Calls :
        /\ Cold(p) /\ pc[p] = "done"
        /\ listCalls[p] = 1
        /\ Len(ret[p].list) = 2
        /\ ret[p].list[1].ReleaseName = "v3" /\ ret[p].list[2].ReleaseName = "v1"
        /\ ret[p].list[1].PublishedAt = RemoteR3.PublishedAt
        /\ releaseCache = Stored(ret[p].list)

\* C16: every Release built by either path has tagLink equal to the fixed
\* base, "/" and its tagName.
C16_TagLinkDerived ==
    \A r \in BuiltReleases : r.TagLink = TagLinkBase \o "/" \o r.TagName

\* C17: a call acquires the mutex at most once and never waits for it while
\* holding it; it holds the mutex exactly from its Lock to its return, so
\* every store write is made by the holder; and the mutex is unlocked
\* whenever no call is in progress.
C17_SingleAcquisition ==
    /\ \A p \in Calls :
          /\ locks[p] <= 1
          /\ pc[p] \in {"u_lock", "g_lock"} => mutex # p
          /\ pc[p] \in {"u_set", "g_set"} => mutex = p
          /\ writes[p] >= 1 /\ pc[p] # "done" => mutex = p
          /\ mutex = p => pc[p] \in {"u_set", "u_ret", "g_set", "g_ret"}
    /\ (\A p \in Calls : pc[p] \in {"idle", "done"}) => mutex = NoCall

C17_Witness ==
    \E p, q \in Calls :
        /\ op[p] = "get" /\ pc[p] = "done" /\ listCalls[p] = 3 /\ locks[p] = 1 /\ writes[p] = 1
        /\ op[q] = "update" /\ pc[q] = "done" /\ locks[q] = 1 /\ writes[q] = 1
        /\ mutex = NoCall

\* C18: under fair scheduling, with every remote call returning, every call
\* that was invoked eventually returns: no call waits for the mutex forever
\* and no retry loop runs forever.
C18_EveryCallReturns ==
    \A p \in Calls : (pc[p] # "idle") ~> (pc[p] = "done")

\* Two overlapping cold GetReleases calls (each read the empty store before
\* the other wrote its records) have both taken the mutex and returned.
C18_Witness ==
    \E p, q \in Calls :
        /\ p # q
        /\ Cold(p) /\ Cold(q)
        /\ pc[p] = "done" /\ pc[q] = "done"
        /\ locks[p] = 1 /\ locks[q] = 1
        /\ Len(fetched[p].releases) >= 1 /\ Len(fetched[q].releases) >= 1
        /\ mutex = NoCall

\* C19: a remote attempt that returned an error writes nothing: a cold
\* GetReleases call has made no store write (and has not taken the mutex) as
\* long as none of its attempts succeeded, a failed attempt's step leaves the
\* store as it was, and when all 3 attempts failed the call returns an empty
\* collection with the error.
C19_FailedAttemptsWriteNothing ==
    [][ \A p \in Calls :
           /\ ( Cold(p) /\ fetched[p] = NoResponse /\ fetched'[p] = NoResponse )
              => /\ writes'[p] = 0 /\ locks'[p] = 0
                 /\ ( pc[p] = "g_wait" /\ pc'[p] # "g_wait" )
                    => releaseCache' = releaseCache
           /\ ( Cold(p) /\ pc[p] = "g_wait" /\ pc'[p] = "done" )
              => /\ listCalls[p] = MaxAttempts
                 /\ ret'[p] = Ret(FALSE, << >>, "exhausted")
                 /\ writes'[p] = 0
      ]_vars

\* A call whose 3 attempts all failed has returned without writing, while
\* the store holds what an UpdateReleases call wrote meanwhile.
C19_Witness ==
    \E p, q \in Calls :
        /\ Cold(p) /\ pc[p] = "done" /\ listCalls[p] = MaxAttempts
        /\ fetched[p] = NoResponse /\ writes[p] = 0
        /\ ret[p] = Ret(FALSE, << >>, "exhausted")
        /\ Ingested(q) /\ releaseCache = Stored(<<releaseInfo[q]>>)

\* C20: UpdateReleases returns true exactly when the call itself wrote the
\* store: a call that returns false (payload not decoded, action not
\* accepted, cached value failing the type check) has written nothing, a
\* call that returns true has written once, and what it wrote is its new
\* collection, headed by the release it built.
C20_TrueIffWritten ==
    [][ \A p \in Calls :
           /\ ( op'[p] = "update" /\ pc[p] # "done" /\ pc'[p] = "done" )
              => /\ ret'[p].flag <=> writes'[p] = 1
                 /\ ~ret'[p].flag => writes'[p] = 0 /\ releaseCache' = releaseCache
                 /\ ret'[p].flag <=> ( /\ request'[p].wellFormed
                                       /\ request'[p].action = ActionPublished
                                       /\ snap'[p].kind # "malformed" )
           /\ ( op[p] = "update" /\ UpdateWrites(p) )
              => /\ writes[p] = 0 /\ writes'[p] = 1
                 /\ releaseCache' = Stored(releaseList[p])
                 /\ Head(releaseList[p]) = releaseInfo[p]
      ]_vars

\* The three returns of false, none with a write, and a return of true
\* after a write: here two calls, one refused on a cached value that fails
\* the type check and one that wrote.
C20_Witness ==
    \E p, q \in Calls :
        /\ op[p] = "update" /\ pc[p] = "done" /\ request[p].wellFormed
        /\ request[p].action = ActionPublished /\ snap[p].kind = "malformed"
        /\ ~ret[p].flag /\ writes[p] = 0
        /\ op[q] = "update" /\ pc[q] = "done" /\ ret[q].flag /\ writes[q] = 1

\* The steps of call p that do not depend on the remote side answering.
LocalStep(p) ==
    \/ UpdateLock(p)
    \/ UpdateSet(p)
    \/ UpdateReturn(p)
    \/ GetListReleases(p)
    \/ GetLock(p)
    \/ GetSet(p)
    \/ GetReturn(p)

\* Fair scheduling of the calls, with a remote side that may never answer.
SpecHang == Spec /\ \A p \in Calls : WF_vars(LocalStep(p))

\* No call holds the mutex at the head of the retry loop or while its remote
\* call is in flight.
NotHeldInFlight ==
    \A p \in Calls : pc[p] \in {"g_loop", "g_wait"} => mutex # p

\* GetReleases takes the mutex only with a successful response mapped into
\* releaseList.
LockedAfterMapping ==
    \A p \in Calls :
        pc[p] \in {"g_lock", "g_set", "g_ret"}
        => /\ fetched[p].err = "nil"
           /\ operationComplete[p]
           /\ releaseList[p] = MapReleases(fetched[p].releases)

\* C21: the mutex is never held while a remote list-releases call is in
\* flight, GetReleases locks only after a successful response has been
\* mapped, and so an UpdateReleases call waiting for the mutex gets it,
\* writes and returns even when remote calls never answer.
C21_NoLockDuringFetch ==
    /\ [](NotHeldInFlight /\ LockedAfterMapping)
    /\ \A q \in Calls : (pc[q] = "u_lock") ~> (Ingested(q) /\ writes[q] = 1)

\* A cold GetReleases call is still waiting for the remote side while an
\* UpdateReleases call that started after its store read has taken the
\* mutex, written the store and returned.
C21_Witness ==
    \E p, q \in Calls :
        /\ Cold(p) /\ pc[p] = "g_wait" /\ listCalls[p] = 2
        /\ Ingested(q) /\ writes[q] = 1 /\ locks[q] = 1
        /\ releaseCache = Stored(releaseList[q])
        /\ mutex = NoCall

=============================================================================
